---- MODULE Spec2Model ----
(***************************************************************************)
(* Model of the users router of My-Sheet-Music                            *)
(* (src/backend/routes/users.js): the five routes that act on one user,   *)
(* the persisted users / works / library entries they read and write,     *)
(* and the requests that are in flight at the same time.                   *)
(*                                                                         *)
(* Every async handler is cut at its awaits: the synchronous prefix of a   *)
(* request (middleware guard, schema validation) is one step, and every    *)
(* awaited model call together with the synchronous code that follows it   *)
(* is one step.  Steps of different requests interleave freely.            *)
(***************************************************************************)
EXTENDS Integers, Sequences, FiniteSets, TLC

\* --------------------------------------------------------------- bounds
MaxInFlight == 2      \* requests being handled at the same time
MaxId == 3            \* user ids the store hands out (two users exist at start)

\* ------------------------------------------------------------ constants
Undefined == "undefined"          \* a JavaScript undefined
Null == "null"                    \* a JavaScript / SQL null
Absent == "absent"                \* a title / composer that is not resolved
NaN == -1                         \* the result of +"alice" (users.js:161)

Slots == 1..MaxInFlight
Passwords == {"p1", "p2"}
ApiIds == {"op1", "op2"}

VARIABLES
    users,      \* the users table: a set of user rows
    works,      \* the works table: a set of work rows
    userLib,    \* the library entries: a set of <<user id, work id>>
    nextId,     \* the next user id the store hands out
    tokens,     \* the identities for which a token has been issued
    catalogUp,  \* the external ids the catalog answers at the moment
    req,        \* req[s]: the request slot s is handling, or Idle
    resp        \* the response the last step sent, with the request it answers,
                \* or NoResp when the last step sent none

vars == <<users, works, userLib, nextId, tokens, catalogUp, req, resp>>
store == <<users, works, userLib>>

\* ------------------------------------------------------ credential store
Hash(p) == [salt |-> "s", digest |-> <<"s", p>>]
Verify(p, h) == h.digest = <<h.salt, p>>

\* ---------------------------------------------------------- token service
createToken(u) == [present |-> TRUE, username |-> u.username, isAdmin |-> u.isAdmin]
NoIdentity == [present |-> FALSE, username |-> Undefined, isAdmin |-> FALSE]

\* ------------------------------------------------------ authorization guard
ensureAdmin(ident) ==
    IF ~ident.present THEN "401"
    ELSE IF ident.isAdmin THEN "ok" ELSE "403"

\* The guard reads req.params.username; a route whose path declares no
\* :username hands it undefined.
ensureCorrectUserOrAdmin(ident, params) ==
    IF ~ident.present THEN "401"
    ELSE IF ident.isAdmin \/ ident.username = params.username THEN "ok" ELSE "403"

GuardError(code) == IF code = "401" THEN "Unauthorized" ELSE "Forbidden"

\* ------------------------------------------------------------ conversions
Digits == ("1" :> 1) @@ ("2" :> 2) @@ ("3" :> 3) @@ ("4" :> 4) @@ ("9" :> 9)
ToNumber(s) == IF s \in DOMAIN Digits THEN Digits[s] ELSE NaN

PublicUser(u) ==
    [id |-> u.id, username |-> u.username, name |-> u.name,
     email |-> u.email, isAdmin |-> u.isAdmin]

RECURSIVE SortedSeq(_)
SortedSeq(S) ==
    IF S = {} THEN <<>>
    ELSE LET m == CHOOSE x \in S : \A y \in S : x <= y
         IN  <<m>> \o SortedSeq(S \ {m})

\* ------------------------------------------------------------- User model
UserByName(us, username) == {u \in us : u.username = username}

User_register(us, nid, body) ==
    IF \E u \in us : u.username = body.username \/ u.email = body.email
    THEN [ok |-> FALSE, error |-> "Conflict", users |-> us]
    ELSE LET u == [id |-> nid, username |-> body.username, name |-> body.name,
                   email |-> body.email, hash |-> Hash(body.password),
                   isAdmin |-> body.isAdmin]
         IN  [ok |-> TRUE, user |-> PublicUser(u), users |-> us \cup {u}]

WorkEntry(ws, wid) ==
    LET w == CHOOSE x \in ws : x.id = wid
    IN  [id |-> w.id, api_id |-> w.api_id, title |-> w.title, composer |-> w.composer]

User_get(us, ws, lib, username) ==
    IF UserByName(us, username) = {}
    THEN [ok |-> FALSE, error |-> "NotFound"]
    ELSE LET u == CHOOSE x \in UserByName(us, username) : TRUE
             ids == SortedSeq({e[2] : e \in {x \in lib : x[1] = u.id}})
         IN  [ok |-> TRUE, user |-> PublicUser(u),
              works |-> [i \in 1..Len(ids) |-> WorkEntry(ws, ids[i])]]

User_authenticate(us, username, password) ==
    \E u \in UserByName(us, username) : Verify(password, u.hash)

User_update(us, username, body) ==
    IF UserByName(us, username) = {}
    THEN [ok |-> FALSE, error |-> "NotFound", users |-> us]
    ELSE LET u == CHOOSE x \in UserByName(us, username) : TRUE
             n == [u EXCEPT !.name = body.name, !.email = body.email]
         IN  IF \E o \in us \ {u} : o.email = body.email
             THEN [ok |-> FALSE, error |-> "Conflict", users |-> us]
             ELSE [ok |-> TRUE, user |-> PublicUser(n), users |-> (us \ {u}) \cup {n}]

\* User_remove without the cascade: the user's library rows stay.
User_remove_NoCascade(us, lib, username) ==
    IF UserByName(us, username) = {}
    THEN [ok |-> FALSE, error |-> "NotFound", users |-> us, userLib |-> lib]
    ELSE LET u == CHOOSE x \in UserByName(us, username) : TRUE
         IN  [ok |-> TRUE, users |-> us \ {u}, userLib |-> lib]

User_remove(us, lib, username) ==
    IF UserByName(us, username) = {}
    THEN [ok |-> FALSE, error |-> "NotFound", users |-> us, userLib |-> lib]
    ELSE LET u == CHOOSE x \in UserByName(us, username) : TRUE
         IN  [ok |-> TRUE, users |-> us \ {u},
              userLib |-> {e \in lib : e[1] # u.id}]

User_addToUserLib(us, ws, lib, uid, wid) ==
    IF ~(\E u \in us : u.id = uid) \/ ~(\E w \in ws : w.id = wid)
    THEN [ok |-> FALSE, error |-> "NotFound", userLib |-> lib]
    ELSE IF <<uid, wid>> \in lib
    THEN [ok |-> FALSE, error |-> "Conflict", userLib |-> lib]
    ELSE [ok |-> TRUE, userLib |-> lib \cup {<<uid, wid>>}]

ErrorStatus(error) ==
    CASE error = "ValidationError" -> "400"
      [] error = "Unauthorized" -> "401"
      [] error = "Bad password" -> "401"
      [] error = "Forbidden" -> "403"
      [] error = "NotFound" -> "404"
      [] error = "Conflict" -> "409"
      [] OTHER -> "500"

\* ------------------------------------------------------ requests, responses
NoParams == [username |-> Undefined, id |-> Undefined, workId |-> Undefined]
NoBody == [username |-> Undefined, name |-> Undefined, email |-> Undefined,
           password |-> Undefined, isAdmin |-> FALSE, valid |-> TRUE]
NoPayload == [none |-> TRUE]

Idle == [kind |-> "none", ident |-> NoIdentity, params |-> NoParams,
         body |-> NoBody, pc |-> "idle", trace |-> <<>>, connected |-> TRUE]

NoResp == [kind |-> "none", ident |-> NoIdentity, params |-> NoParams,
           body |-> NoBody, status |-> "none", error |-> "none",
           payload |-> NoPayload, trace |-> <<>>, up |-> {}, connected |-> TRUE]

Request(kind, ident, params, body) ==
    [kind |-> kind, ident |-> ident, params |-> params, body |-> body,
     pc |-> "idle", trace |-> <<>>, connected |-> TRUE]

Response(r, trace, status, error, payload) ==
    [kind |-> r.kind, ident |-> r.ident, params |-> r.params, body |-> r.body,
     status |-> status, error |-> error, payload |-> payload, trace |-> trace,
     up |-> catalogUp, connected |-> r.connected]

Fail(r, trace, error) == Response(r, trace, ErrorStatus(error), error, NoPayload)

\* The request goes on to its next await.
Await(s, r, pc, trace) ==
    /\ req' = [req EXCEPT ![s] = [r EXCEPT !.pc = pc, !.trace = trace]]
    /\ resp' = NoResp

\* The request is answered and its slot is free again.
Send(s, response) ==
    /\ req' = [req EXCEPT ![s] = Idle]
    /\ resp' = response

\* A new request takes the first free slot.
Free(s) == req[s] = Idle /\ \A q \in Slots : q < s => req[q] # Idle

\* ------------------------------------------------------------------- Init
InitUsers ==
    {[id |-> 1, username |-> "root", name |-> "n1", email |-> "e1",
      hash |-> Hash("p1"), isAdmin |-> TRUE],
     [id |-> 2, username |-> "alice", name |-> "n1", email |-> "e2",
      hash |-> Hash("p1"), isAdmin |-> FALSE]}

InitWorks ==
    {[id |-> 1, api_id |-> "op1", title |-> Absent, composer |-> Absent],
     [id |-> 2, api_id |-> "op2", title |-> Absent, composer |-> Absent],
     [id |-> 3, api_id |-> Null, title |-> "t3", composer |-> "c3"],
     [id |-> 4, api_id |-> Null, title |-> "t4", composer |-> "c4"]}

Init ==
    /\ users = InitUsers
    /\ works = InitWorks
    /\ userLib = {}
    /\ nextId = 3
    /\ tokens = {createToken(u) : u \in InitUsers}
    /\ catalogUp = ApiIds
    /\ req = [s \in Slots |-> Idle]
    /\ resp = NoResp

Identities == tokens \cup {NoIdentity}

\* --------------------------------------------------- POST /users (create)
\* users.js:30-36: ensureAdmin, then the body against userNewSchema
CreateUser_Begin(s, ident, body) ==
    LET r == Request("create", ident, NoParams, body)
        g == ensureAdmin(ident)
    IN  /\ Free(s)
        /\ UNCHANGED <<users, works, userLib, nextId, tokens, catalogUp>>
        /\ IF g # "ok" THEN Send(s, Fail(r, <<"guard">>, GuardError(g)))
           ELSE IF ~body.valid
           THEN Send(s, Fail(r, <<"guard", "validate">>, "ValidationError"))
           ELSE Await(s, r, "register", <<"guard", "validate">>)

\* CreateUser_Register with the token made from the request body before
\* User.register is awaited: a token is issued even when register throws.
CreateUser_Register_TokenFirst(s) ==
    LET r == req[s]
        t == Append(r.trace, "register")
        out == User_register(users, nextId, r.body)
    IN  /\ r.kind = "create" /\ r.pc = "register"
        /\ UNCHANGED <<works, userLib, catalogUp>>
        /\ users' = out.users
        /\ tokens' = tokens \cup {createToken(r.body)}
        /\ IF out.ok
           THEN /\ nextId' = nextId + 1
                /\ Send(s, Response(r, t, "201", "none",
                                    [user |-> out.user, token |-> createToken(r.body)]))
           ELSE /\ UNCHANGED nextId
                /\ Send(s, Fail(r, t, out.error))

\* users.js:38-40: await User.register, createToken, 201
CreateUser_Register(s) ==
    LET r == req[s]
        t == Append(r.trace, "register")
        out == User_register(users, nextId, r.body)
    IN  /\ r.kind = "create" /\ r.pc = "register"
        /\ UNCHANGED <<works, userLib, catalogUp>>
        /\ users' = out.users
        /\ IF out.ok
           THEN /\ nextId' = nextId + 1
                /\ tokens' = tokens \cup {createToken(out.user)}
                /\ Send(s, Response(r, t, "201", "none",
                                    [user |-> out.user, token |-> createToken(out.user)]))
           ELSE /\ UNCHANGED <<nextId, tokens>>
                /\ Send(s, Fail(r, t, out.error))

\* ------------------------------------------------- GET /users/:username
\* users.js:77-85: the for-of loop over user.works, from entry i on.  The
\* template literal of line 80 reads the identifier api_id, which no scope of
\* the strict-mode module declares: evaluating it throws a ReferenceError
\* before axios.get is called, so lines 79-83 never get further.
RECURSIVE EnrichLoop(_, _)
EnrichLoop(ws, i) ==
    IF i > Len(ws) THEN [threw |-> FALSE, works |-> ws]
    ELSE IF ws[i].api_id # Undefined /\ ws[i].api_id # Null
    THEN [threw |-> TRUE, error |-> "ReferenceError", works |-> ws]
    ELSE EnrichLoop(ws, i + 1)

\* users.js:76: the loop runs only for a library of more than one entry
Enrich(ws) ==
    IF Len(ws) > 1 THEN EnrichLoop(ws, 1) ELSE [threw |-> FALSE, works |-> ws]

\* users.js:70-75: ensureCorrectUserOrAdmin, then the handler up to its first await
GetUser_Begin(s, ident, username) ==
    LET r == Request("get", ident, [NoParams EXCEPT !.username = username], NoBody)
        g == ensureCorrectUserOrAdmin(ident, r.params)
    IN  /\ Free(s)
        /\ UNCHANGED <<users, works, userLib, nextId, tokens, catalogUp>>
        /\ IF g # "ok" THEN Send(s, Fail(r, <<"guard">>, GuardError(g)))
           ELSE Await(s, r, "get", <<"guard">>)

\* GetUser_Get that saves what the catalog serves into the works table.
GetUser_Get_WriteBack(s) ==
    LET r == req[s]
        t == Append(r.trace, "get")
        out == User_get(users, works, userLib, r.params.username)
        e == Enrich(out.works)
    IN  /\ r.kind = "get" /\ r.pc = "get"
        /\ UNCHANGED <<users, userLib, nextId, tokens, catalogUp>>
        /\ works' = {IF w.api_id \in catalogUp THEN [w EXCEPT !.title = "resolved"] ELSE w :
                        w \in works}
        /\ IF ~out.ok THEN Send(s, Fail(r, t, out.error))
           ELSE IF e.threw THEN Send(s, Fail(r, Append(t, "enrich"), e.error))
           ELSE Send(s, Response(r, Append(t, "enrich"), "200", "none",
                                 [user |-> out.user, works |-> e.works]))

\* users.js:75-90: await User.get, the enrichment loop, res.json or next(err)
GetUser_Get(s) ==
    LET r == req[s]
        t == Append(r.trace, "get")
        out == User_get(users, works, userLib, r.params.username)
        e == Enrich(out.works)
    IN  /\ r.kind = "get" /\ r.pc = "get"
        /\ UNCHANGED <<users, works, userLib, nextId, tokens, catalogUp>>
        /\ IF ~out.ok THEN Send(s, Fail(r, t, out.error))
           ELSE IF e.threw THEN Send(s, Fail(r, Append(t, "enrich"), e.error))
           ELSE Send(s, Response(r, Append(t, "enrich"), "200", "none",
                                 [user |-> out.user, works |-> e.works]))

\* The client goes away while the handler waits for User.get; nothing in the
\* handler looks at the connection, so it carries on.
ClientDisconnect(s) ==
    /\ req[s].kind = "get" /\ req[s].pc = "get" /\ req[s].connected
    /\ req' = [req EXCEPT ![s].connected = FALSE]
    /\ resp' = NoResp
    /\ UNCHANGED <<users, works, userLib, nextId, tokens, catalogUp>>

\* The external catalog starts or stops answering for one external id.
CatalogFlip(a) ==
    /\ catalogUp' = IF a \in catalogUp THEN catalogUp \ {a} ELSE catalogUp \cup {a}
    /\ resp' = NoResp
    /\ UNCHANGED <<users, works, userLib, nextId, tokens, req>>

\* ----------------------------------------------- PATCH /users/:username
\* PatchUser_Begin without the schema validation: every body the guard lets
\* through goes on to User.authenticate.
PatchUser_Begin_Unvalidated(s, ident, username, body) ==
    LET r == Request("patch", ident, [NoParams EXCEPT !.username = username], body)
        g == ensureCorrectUserOrAdmin(ident, r.params)
    IN  /\ Free(s)
        /\ UNCHANGED <<users, works, userLib, nextId, tokens, catalogUp>>
        /\ IF g # "ok" THEN Send(s, Fail(r, <<"guard">>, GuardError(g)))
           ELSE Await(s, r, "authenticate", <<"guard">>)

\* users.js:105-118: ensureCorrectUserOrAdmin, the body against
\* userUpdateSchema, then the handler up to await User.authenticate
PatchUser_Begin(s, ident, username, body) ==
    LET r == Request("patch", ident, [NoParams EXCEPT !.username = username], body)
        g == ensureCorrectUserOrAdmin(ident, r.params)
    IN  /\ Free(s)
        /\ UNCHANGED <<users, works, userLib, nextId, tokens, catalogUp>>
        /\ IF g # "ok" THEN Send(s, Fail(r, <<"guard">>, GuardError(g)))
           ELSE IF ~body.valid
           THEN Send(s, Fail(r, <<"guard", "validate">>, "ValidationError"))
           ELSE Await(s, r, "authenticate", <<"guard", "validate">>)

\* PatchUser_Authenticate with the test of isValid left out: the update
\* follows whatever the password.
PatchUser_Authenticate_Unchecked(s) ==
    LET r == req[s]
        t == Append(r.trace, "authenticate")
    IN  /\ r.kind = "patch" /\ r.pc = "authenticate"
        /\ UNCHANGED <<users, works, userLib, nextId, tokens, catalogUp>>
        /\ Await(s, r, "update", t)

\* users.js:115-124: await User.authenticate, then update or "Bad password"
PatchUser_Authenticate(s) ==
    LET r == req[s]
        t == Append(r.trace, "authenticate")
        isValid == User_authenticate(users, r.params.username, r.body.password)
    IN  /\ r.kind = "patch" /\ r.pc = "authenticate"
        /\ UNCHANGED <<users, works, userLib, nextId, tokens, catalogUp>>
        /\ IF isValid THEN Await(s, r, "update", t)
           ELSE Send(s, Fail(r, t, "Bad password"))

\* users.js:121-122: await User.update, res.json
PatchUser_Update(s) ==
    LET r == req[s]
        t == Append(r.trace, "update")
        out == User_update(users, r.params.username, r.body)
    IN  /\ r.kind = "patch" /\ r.pc = "update"
        /\ UNCHANGED <<works, userLib, nextId, tokens, catalogUp>>
        /\ users' = out.users
        /\ IF out.ok THEN Send(s, Response(r, t, "200", "none", [user |-> out.user]))
           ELSE Send(s, Fail(r, t, out.error))

\* ---------------------------------------------- DELETE /users/:username
\* DeleteUser_Begin on a route that was registered without its guard.
DeleteUser_Begin_Unguarded(s, ident, username) ==
    LET r == Request("delete", ident, [NoParams EXCEPT !.username = username], NoBody)
    IN  /\ Free(s)
        /\ UNCHANGED <<users, works, userLib, nextId, tokens, catalogUp>>
        /\ Await(s, r, "remove", <<"guard">>)

\* users.js:136-141: ensureCorrectUserOrAdmin, then the handler up to its await
DeleteUser_Begin(s, ident, username) ==
    LET r == Request("delete", ident, [NoParams EXCEPT !.username = username], NoBody)
        g == ensureCorrectUserOrAdmin(ident, r.params)
    IN  /\ Free(s)
        /\ UNCHANGED <<users, works, userLib, nextId, tokens, catalogUp>>
        /\ IF g # "ok" THEN Send(s, Fail(r, <<"guard">>, GuardError(g)))
           ELSE Await(s, r, "remove", <<"guard">>)

\* users.js:141-142: await User.remove, res.json
DeleteUser_Remove(s) ==
    LET r == req[s]
        t == Append(r.trace, "remove")
        out == User_remove(users, userLib, r.params.username)
    IN  /\ r.kind = "delete" /\ r.pc = "remove"
        /\ UNCHANGED <<works, nextId, tokens, catalogUp>>
        /\ users' = out.users
        /\ userLib' = out.userLib
        /\ IF out.ok
           THEN Send(s, Response(r, t, "200", "none", [deleted |-> r.params.username]))
           ELSE Send(s, Fail(r, t, out.error))

\* ---------------------------------------- POST /users/:id/userLib/:workId
\* users.js:156-161: ensureCorrectUserOrAdmin on a path that declares :id and
\* :workId, then the handler up to its await
AddToUserLib_Begin(s, ident, id, workId) ==
    LET r == Request("add", ident, [NoParams EXCEPT !.id = id, !.workId = workId], NoBody)
        g == ensureCorrectUserOrAdmin(ident, r.params)
    IN  /\ Free(s)
        /\ UNCHANGED <<users, works, userLib, nextId, tokens, catalogUp>>
        /\ IF g # "ok" THEN Send(s, Fail(r, <<"guard">>, GuardError(g)))
           ELSE Await(s, r, "addToUserLib", <<"guard">>)

\* users.js:161-162: await User.addToUserLib(+id, +workId), res.json
AddToUserLib_Add(s) ==
    LET r == req[s]
        t == Append(r.trace, "addToUserLib")
        out == User_addToUserLib(users, works, userLib,
                                 ToNumber(r.params.id), ToNumber(r.params.workId))
    IN  /\ r.kind = "add" /\ r.pc = "addToUserLib"
        /\ UNCHANGED <<users, works, nextId, tokens, catalogUp>>
        /\ userLib' = out.userLib
        /\ IF out.ok
           THEN Send(s, Response(r, t, "200", "none", [added |-> r.params.workId]))
           ELSE Send(s, Fail(r, t, out.error))

\* ------------------------------------------------------------ the inputs
\* Request bodies.  valid is the verdict of jsonschema.validate on the body.
Body(username, name, email, password, isAdmin, valid) ==
    [username |-> username, name |-> name, email |-> email,
     password |-> password, isAdmin |-> isAdmin, valid |-> valid]

PatchBodies == {Body(Undefined, "n2", "e3", p, FALSE, v) : p \in Passwords, v \in BOOLEAN}

CreateBodies ==
    {Body(u, "n1", e, "p2", a, v) :
        u \in {"alice", "bob"}, e \in {"e2", "e3"}, a \in {FALSE}, v \in BOOLEAN}

AddPaths ==
    {<<"2", "1">>, <<"2", "2">>, <<"2", "3">>, <<"2", "4">>, <<"2", "9">>, <<"alice", "1">>}

\* ---------------------------------------------------------- specifications
\* The four routes that write, each with a small menu of requests.
Next ==
    \E s \in Slots :
        \/ \E ident \in Identities :
               /\ nextId <= MaxId
               /\ CreateUser_Begin(s, ident, Body("bob", "n1", "e3", "p2", FALSE, TRUE))
        \/ CreateUser_Register(s)
        \/ \E ident \in Identities :
               PatchUser_Begin(s, ident, "alice", Body(Undefined, "n2", "e3", "p1", FALSE, TRUE))
        \/ PatchUser_Authenticate(s)
        \/ PatchUser_Update(s)
        \/ \E ident \in Identities, username \in {"alice", "bob"} :
               DeleteUser_Begin(s, ident, username)
        \/ DeleteUser_Remove(s)
        \/ \E ident \in Identities, id \in {"2", "3"} :
               AddToUserLib_Begin(s, ident, id, "1")
        \/ AddToUserLib_Add(s)

Spec == Init /\ [][Next]_vars

\* Creating and deleting users: every create body, every caller.
NextCreate ==
    \E s \in Slots :
        \/ \E ident \in Identities, body \in CreateBodies :
               nextId <= MaxId /\ CreateUser_Begin(s, ident, body)
        \/ CreateUser_Register(s)
        \/ \E ident \in Identities, username \in {"alice", "bob"} :
               DeleteUser_Begin(s, ident, username)
        \/ DeleteUser_Remove(s)

SpecCreate == Init /\ [][NextCreate]_vars

\* Updating users, while users are deleted and created again.
NextPatch ==
    \E s \in Slots :
        \/ \E ident \in Identities, username \in {"root", "alice"}, body \in PatchBodies :
               PatchUser_Begin(s, ident, username, body)
        \/ PatchUser_Authenticate(s)
        \/ PatchUser_Update(s)
        \/ \E ident \in Identities : DeleteUser_Begin(s, ident, "alice")
        \/ DeleteUser_Remove(s)
        \/ \E ident \in Identities :
               /\ nextId <= MaxId
               /\ CreateUser_Begin(s, ident, Body("alice", "n1", "e2", "p2", FALSE, TRUE))
        \/ CreateUser_Register(s)

SpecPatch == Init /\ [][NextPatch]_vars

\* Reading users and their libraries, while libraries grow and the catalog
\* comes and goes.
NextRead ==
    \/ \E s \in Slots :
        \/ \E ident \in Identities, username \in {"alice", "bob"} :
               GetUser_Begin(s, ident, username)
        \/ GetUser_Get(s)
        \/ ClientDisconnect(s)
        \/ \E ident \in Identities, p \in AddPaths :
               AddToUserLib_Begin(s, ident, p[1], p[2])
        \/ AddToUserLib_Add(s)
    \/ CatalogFlip("op1")

SpecRead == Init /\ [][NextRead]_vars

\* ------------------------------------------------- what the claims speak of
Range(f) == {f[i] : i \in DOMAIN f}
Gates == <<"guard", "validate", "authenticate", "update">>
Mutating == {"create", "patch", "delete", "add"}

\* The external catalog: the record it serves under an external id.
CatalogTitle == ("op1" :> "T1") @@ ("op2" :> "T2")
CatalogComposer == ("op1" :> "K1") @@ ("op2" :> "K2")

\* The route's policy, stated on its own: admin-only for create; for the
\* others the caller is an admin or the owner the route names.
Entitled(kind, ident, params, us) ==
    /\ ident.present
    /\ \/ ident.isAdmin
       \/ kind \in {"get", "patch", "delete"} /\ ident.username = params.username
       \/ kind = "add" /\ \E u \in us : u.username = ident.username
                                        /\ u.id = ToNumber(params.id)

\* The library rows of the user called username, as work rows.
LibraryOf(us, ws, lib, username) ==
    {w \in ws : \E u \in us : u.username = username /\ <<u.id, w.id>> \in lib}

HasApiId(e) == e.api_id # Undefined /\ e.api_id # Null

\* The response lists exactly the library L, in order of work id.
ListsLibrary(r, L) ==
    /\ Len(r.payload.works) = Cardinality(L)
    /\ {e.id : e \in Range(r.payload.works)} = {w.id : w \in L}

\* The handler of the answered request ran: the guard let it through.
Handled(r) == Len(r.trace) > 1

\* --------------------------------------------------------------------- C1
\* C1 as stated: a PATCH /users/u by a caller the guard lets through, for an
\* existing u, whose password does not verify against u's stored hash is
\* answered 401 "Bad password" and changes nothing that is stored.
C1_AsStated ==
    [][ (/\ resp'.kind = "patch"
         /\ Entitled("patch", resp'.ident, resp'.params, users)
         /\ \E u \in UserByName(users, resp'.params.username) :
                ~Verify(resp'.body.password, u.hash))
        => (/\ resp'.status = "401"
            /\ resp'.error = "Bad password"
            /\ store' = store) ]_vars

\* C1 amended: the password is checked after the body's shape.  When the
\* handler's authenticate call finds that the password does not verify against
\* the target's stored hash, the request is answered 401 "Bad password"; a
\* malformed body is answered ValidationError whatever its password; both
\* leave everything stored as it was.  A PATCH changes stored data only in its
\* update step, and a request gets to that step only from an authenticate call
\* that verified its password against the target's hash.
C1_BadPasswordChangesNothing ==
    [][ /\ \A s \in Slots :
            (/\ req[s].kind = "patch" /\ req[s].pc = "authenticate"
             /\ req'[s] # req[s]
             /\ \E u \in UserByName(users, req[s].params.username) :
                    ~Verify(req[s].body.password, u.hash))
            => (/\ resp'.kind = "patch"
                /\ resp'.status = "401"
                /\ resp'.error = "Bad password"
                /\ store' = store)
        /\ (/\ resp'.kind = "patch"
            /\ Entitled("patch", resp'.ident, resp'.params, users)
            /\ ~resp'.body.valid)
            => (/\ resp'.status = "400"
                /\ resp'.error = "ValidationError"
                /\ store' = store)
        /\ \A s \in Slots :
            (req[s].kind = "patch" /\ req'[s] # req[s] /\ store' # store)
            => req[s].pc = "update"
        /\ \A s \in Slots :
            (req'[s].kind = "patch" /\ req'[s].pc = "update" /\ req'[s] # req[s])
            => (/\ req[s].kind = "patch" /\ req[s].pc = "authenticate"
                /\ \E u \in UserByName(users, req[s].params.username) :
                       Verify(req[s].body.password, u.hash)) ]_vars

\* An admin's PATCH of an existing user was just refused for its password.
C1_Witness ==
    /\ resp.kind = "patch" /\ resp.error = "Bad password" /\ resp.status = "401"
    /\ resp.ident.isAdmin /\ resp.ident.username # resp.params.username
    /\ \E u \in UserByName(users, resp.params.username) :
           ~Verify(resp.body.password, u.hash) /\ u.name = "n1"

\* --------------------------------------------------------------------- C2
\* C2: while GET /users/:username runs, a catalog lookup that fails for one
\* library entry does not fail the request: the answer is 200 and lists every
\* entry of the user, a failed entry with title and composer unresolved, a
\* succeeded one with the catalog's title and composer.
C2_FailedLookupNotFatal ==
    LET L == LibraryOf(users, works, userLib, resp.params.username)
    IN  (/\ resp.kind = "get" /\ Handled(resp)
         /\ UserByName(users, resp.params.username) # {}
         /\ \E w \in L : HasApiId(w) /\ w.api_id \notin resp.up)
        => (/\ resp.status = "200"
            /\ ListsLibrary(resp, L)
            /\ \A e \in Range(resp.payload.works) :
                   /\ (HasApiId(e) /\ e.api_id \notin resp.up)
                      => (e.title = Absent /\ e.composer = Absent)
                   /\ (HasApiId(e) /\ e.api_id \in resp.up)
                      => (/\ e.title = CatalogTitle[e.api_id]
                          /\ e.composer = CatalogComposer[e.api_id]))

\* --------------------------------------------------------------------- C3
\* C3: GET /users/:username enriches every entry whose external id is set,
\* for a library of any size, one entry included: when the catalog answers for
\* the entry's id, the returned entry has the title and composer of the
\* catalog record under that entry's own id.
C3_EveryEntryEnriched ==
    LET L == LibraryOf(users, works, userLib, resp.params.username)
    IN  (/\ resp.kind = "get" /\ Handled(resp)
         /\ UserByName(users, resp.params.username) # {}
         /\ \E w \in L : HasApiId(w)
         /\ \A w \in L : HasApiId(w) => w.api_id \in resp.up)
        => (/\ resp.status = "200"
            /\ ListsLibrary(resp, L)
            /\ \A e \in Range(resp.payload.works) :
                   HasApiId(e) => (/\ e.title = CatalogTitle[e.api_id]
                                   /\ e.composer = CatalogComposer[e.api_id]))

\* --------------------------------------------------------------------- C4
\* C4: a non-admin's GET of another user is answered Forbidden; the same
\* user's GET of their own username is answered 200 with the user and their
\* works, whatever the size of the library and the external ids in it.
C4_OwnReadSucceeds ==
    LET L == LibraryOf(users, works, userLib, resp.params.username)
    IN  (resp.kind = "get" /\ resp.ident.present /\ ~resp.ident.isAdmin)
        => IF resp.params.username # resp.ident.username
           THEN resp.status = "403" /\ resp.error = "Forbidden"
           ELSE UserByName(users, resp.params.username) # {}
                => (/\ resp.status = "200"
                    /\ resp.payload.user.username = resp.ident.username
                    /\ ListsLibrary(resp, L))

\* --------------------------------------------------------------------- C5
\* C5: when an existing non-admin user adds an existing work to their own
\* library and the guard lets the request through, the answer is 200
\* {added: workId} and the entry is in the library; and every GET of their own
\* user that finds an entry in the library is answered 200 with the entry
\* among the works, title and composer absent where the catalog fails for it.
C5_AddThenRead ==
    [][ /\ (/\ resp'.kind = "add" /\ Handled(resp')
            /\ resp'.ident.present /\ ~resp'.ident.isAdmin
            /\ \E u \in users : /\ u.username = resp'.ident.username
                                /\ u.id = ToNumber(resp'.params.id)
            /\ \E w \in works : w.id = ToNumber(resp'.params.workId)
            /\ <<ToNumber(resp'.params.id), ToNumber(resp'.params.workId)>> \notin userLib)
           => (/\ resp'.status = "200"
               /\ resp'.payload.added = resp'.params.workId
               /\ <<ToNumber(resp'.params.id), ToNumber(resp'.params.workId)>> \in userLib')
        /\ (/\ resp'.kind = "get"
            /\ resp'.ident.present /\ ~resp'.ident.isAdmin
            /\ resp'.ident.username = resp'.params.username
            /\ UserByName(users, resp'.params.username) # {})
           => (/\ resp'.status = "200"
               /\ ListsLibrary(resp', LibraryOf(users, works, userLib, resp'.params.username))
               /\ \A e \in Range(resp'.payload.works) :
                      (HasApiId(e) /\ e.api_id \notin resp'.up)
                      => (e.title = Absent /\ e.composer = Absent)) ]_vars

\* --------------------------------------------------------------------- C6
NoOrphans == \A e \in userLib : \E u \in users : u.id = e[1]

\* C6: in every reachable state every library entry belongs to a user that
\* exists; and a DELETE /users/:username answered 200 has removed the user and
\* every library entry of that user, whatever other requests are in flight.
C6_NoOrphanedEntries ==
    /\ []NoOrphans
    /\ [][ (resp'.kind = "delete" /\ resp'.status = "200")
           => (/\ UserByName(users, resp'.params.username) # {}
               /\ UserByName(users', resp'.params.username) = {}
               /\ \A u \in UserByName(users, resp'.params.username) :
                      \A e \in userLib' : e[1] # u.id) ]_vars

\* alice was just deleted while a request that adds to her library waits for
\* its User.addToUserLib.
C6_Witness ==
    /\ resp.kind = "delete" /\ resp.status = "200" /\ resp.params.username = "alice"
    /\ \E s \in Slots : /\ req[s].kind = "add" /\ req[s].pc = "addToUserLib"
                        /\ req[s].params.id = "2"

\* --------------------------------------------------------------------- C7
UniqueUsers ==
    \A u, v \in users :
        (u.username = v.username \/ u.email = v.email \/ u.id = v.id) => u = v

\* C7: at most one user per username and per email in every reachable state.
\* A create whose username or email is taken when User.register runs is
\* answered 409 Conflict, issues no token and changes no user; one whose
\* username and email are free is answered 201 with the user and a token.  So of
\* two creates of one username in flight together, the first to register
\* gets 201 and the other 409.
C7_OneUserPerName ==
    /\ []UniqueUsers
    /\ [][ \A s \in Slots :
            (req[s].kind = "create" /\ req[s].pc = "register" /\ req'[s] # req[s])
            => /\ resp'.kind = "create"
               /\ IF \E u \in users : \/ u.username = req[s].body.username
                                      \/ u.email = req[s].body.email
                  THEN /\ resp'.status = "409" /\ resp'.error = "Conflict"
                       /\ resp'.payload = NoPayload
                       /\ users' = users /\ tokens' = tokens
                  ELSE /\ resp'.status = "201"
                       /\ resp'.payload.user.username = req[s].body.username
                       /\ resp'.payload.token.username = req[s].body.username
                       /\ resp'.payload.token \in tokens'
                       /\ users \subseteq users'
                       /\ \E u \in users' \ users :
                              /\ u.username = req[s].body.username
                              /\ u.email = req[s].body.email ]_vars

\* One of two creates of the same username that were in flight together was
\* just answered 201; the other still waits for its User.register.
C7_Witness ==
    /\ resp.kind = "create" /\ resp.status = "201"
    /\ \E s \in Slots : /\ req[s].kind = "create" /\ req[s].pc = "register"
                        /\ req[s].body.username = resp.body.username

\* --------------------------------------------------------------------- C8
\* C8: on the four routes that write, a request without an identity is
\* answered 401, one whose identity the route's policy does not entitle is
\* answered 403, and neither changes what is stored; every step that changes
\* what is stored answers a request of an admin or of the owner its route names.
C8_NoWriteWithoutAuthorization ==
    [][ /\ (resp'.kind \in Mutating /\ ~resp'.ident.present)
           => (/\ resp'.status = "401" /\ resp'.error = "Unauthorized"
               /\ store' = store)
        /\ (/\ resp'.kind \in Mutating /\ resp'.ident.present
            /\ ~Entitled(resp'.kind, resp'.ident, resp'.params, users))
           => (/\ resp'.status = "403" /\ resp'.error = "Forbidden"
               /\ store' = store)
        /\ (store' # store)
           => (/\ resp'.kind \in Mutating
               /\ Entitled(resp'.kind, resp'.ident, resp'.params, users)) ]_vars

\* A user who is no admin just asked to delete another, existing user and was
\* answered 403.
C8_Witness ==
    /\ resp.kind = "delete" /\ resp.status = "403"
    /\ resp.ident.present /\ ~resp.ident.isAdmin
    /\ resp.ident.username # resp.params.username
    /\ UserByName(users, resp.params.username) # {}

\* --------------------------------------------------------------------- C9
IsPrefix(t, g) == Len(t) <= Len(g) /\ \A i \in 1..Len(t) : t[i] = g[i]

C9_GatesInOrder ==
    /\ \A s \in Slots :
        req[s].kind = "patch"
        => /\ Entitled("patch", req[s].ident, req[s].params, users)
           /\ req[s].body.valid
           /\ req[s].pc = "authenticate" => req[s].trace = SubSeq(Gates, 1, 2)
           /\ req[s].pc = "update" => req[s].trace = SubSeq(Gates, 1, 3)
    /\ resp.kind = "patch"
        => /\ IsPrefix(resp.trace, Gates)
           /\ ~Entitled("patch", resp.ident, resp.params, users)
              => (/\ resp.trace = SubSeq(Gates, 1, 1)
                  /\ resp.error = IF resp.ident.present THEN "Forbidden" ELSE "Unauthorized")
           /\ (Entitled("patch", resp.ident, resp.params, users) /\ ~resp.body.valid)
              => (/\ resp.trace = SubSeq(Gates, 1, 2)
                  /\ resp.error = "ValidationError")
           /\ resp.error = "ValidationError" => "authenticate" \notin Range(resp.trace)
           /\ resp.error = "Bad password" => resp.trace = SubSeq(Gates, 1, 3)
           /\ "update" \in Range(resp.trace)
              => (/\ resp.trace = Gates
                  /\ Entitled("patch", resp.ident, resp.params, users)
                  /\ resp.body.valid)

\* C9: PATCH /users/:username passes its gates in the order guard, body
\* validation, password verification, update.  A request that fails a gate is
\* answered with that gate's error and has run no later step: a malformed body
\* is answered ValidationError with User.authenticate not called and nothing
\* changed, and only a request that passed all three gates runs the update,
\* the one step of a PATCH that changes what is stored.
C9_PatchGateOrder ==
    /\ []C9_GatesInOrder
    /\ [][ /\ (resp'.kind = "patch" /\ resp'.trace # Gates) => store' = store
           /\ \A s \in Slots :
                (req[s].kind = "patch" /\ req'[s] # req[s] /\ store' # store)
                => (req[s].pc = "update" /\ req[s].trace = SubSeq(Gates, 1, 3)) ]_vars

\* A malformed body whose password is wrong as well, sent by a caller the
\* guard lets through, was just answered ValidationError.
C9_Witness ==
    /\ resp.kind = "patch" /\ resp.error = "ValidationError"
    /\ resp.trace = <<"guard", "validate">>
    /\ \E u \in UserByName(users, resp.params.username) :
           ~Verify(resp.body.password, u.hash)

\* -------------------------------------------------------------------- C10
\* C10: no step of a GET /users/:username (its guard, its User.get and
\* enrichment, its answer, the client going away meanwhile) changes the stored
\* users, works or library entries, whatever the outcome.
C10_GetIsReadOnly ==
    [][ (\/ resp'.kind = "get"
         \/ \E s \in Slots : req'[s] # req[s]
                             /\ (req[s].kind = "get" \/ req'[s].kind = "get"))
        => store' = store ]_vars

\* A GET whose client went away meanwhile was just answered with a library
\* that holds an entry with an external id.
C10_Witness ==
    /\ resp.kind = "get" /\ ~resp.connected /\ resp.status = "200"
    /\ \E e \in Range(resp.payload.works) : HasApiId(e)
====
